---- MODULE Spec2Model ----
(***************************************************************************)
(* Verification model of the document accessibility analysers:             *)
(*   checkDocx  (src/lib/accessibility/docxChecker.ts, lines 5-249)        *)
(*   checkPdf   (src/unnamed/part_001, lines 3-266)                        *)
(* and of the heading-hierarchy scan described in spec.md section 4.1.     *)
(*                                                                         *)
(* An analyser run is an async function: it is modelled as one process     *)
(* whose position pc advances from one check to the next.  Every value the *)
(* run obtains from a collaborator (a ZIP part, the PDF metadata, the      *)
(* outline, the page texts, the structure tree) is drawn from a bounded    *)
(* set at the moment the code awaits it and is held in `fetched` until the *)
(* next await replaces it, like the block-scoped locals of the code.       *)
(*                                                                         *)
(* Strings are sequences of one-character strings; an optional value       *)
(* (an attribute that may be missing, an undefined property) is the empty  *)
(* tuple << >> when missing and the one-element tuple << s >> when set.    *)
(***************************************************************************)
EXTENDS Integers, Sequences, FiniteSets, TLC

VARIABLES
    pc,                 \* position of the run
    fetched,            \* value returned by the latest awaited collaborator call
    violations,         \* const violations: Violation[]
    title,              \* docx: let title
    langFound,          \* docx: let langFound
    headingStyleIds,    \* docx: const headingStyleIds = new Set<string>()
    pageIdx,            \* pdf: loop variable i of the text-layer loop
    totalTextLength,    \* pdf: let totalTextLength
    report,             \* << >> until the run returns, then << Report >>
    headingSeq,         \* hierarchy scan: heading levels of the body, in order
    headingIdx,         \* hierarchy scan: number of headings scanned so far
    lastLevel,          \* hierarchy scan: level of the previous heading, 0 at start
    hierarchyFlags,     \* hierarchy scan: positions flagged as hierarchy violations
    headingRecords,     \* hierarchy scan: the records of the heading check
    isProcessing,       \* page: const [isProcessing, setIsProcessing] = useState(false)
    homeReport,         \* page: const [report, setReport] = useState(null)
    error,              \* page: const [error, setError] = useState(null)
    calls,              \* page: the handleFileSelect calls made so far, in order
    alerted,            \* page: the files validateAndUpload turned away with an alert
    running,            \* the analyser invocation (1 or 2) that is executing
    suspended,          \* the locals of the other invocation, suspended at an await
    workerSrc,          \* pdfjsLib.GlobalWorkerOptions.workerSrc, with its writer
    workerReads         \* the reads of workerSrc by getDocument: reader and writer

vars == <<pc, fetched, violations, title, langFound, headingStyleIds,
          pageIdx, totalTextLength, report,
          headingSeq, headingIdx, lastLevel, hierarchyFlags, headingRecords,
          isProcessing, homeReport, error, calls, alerted,
          running, suspended, workerSrc, workerReads>>

analyserVars == <<pc, fetched, violations, title, langFound, headingStyleIds,
                  pageIdx, totalTextLength, report>>

hierarchyVars == <<headingSeq, headingIdx, lastLevel, hierarchyFlags, headingRecords>>

pageVars == <<isProcessing, homeReport, error, calls, alerted>>

invocationVars == <<running, suspended, workerSrc, workerReads>>

\* what an analyser step, the heading scan and the page leave alone
nonAnalyserVars == <<hierarchyVars, pageVars, invocationVars>>

nonHierarchyVars == <<analyserVars, pageVars, invocationVars>>

nonPageVars == <<analyserVars, hierarchyVars, invocationVars>>

----------------------------------------------------------------------------
(* Bounds of the model *)

MaxTitleLen == 1     \* longest document title drawn
MaxImages == 2       \* most <wp:docPr> tags in a DOCX body
MaxPages == 6        \* most pages of a PDF (more than the five that are sampled)
MaxNodes == 3        \* most nodes of a PDF structure tree
MaxHeadings == 5     \* most headings in a scanned body
MaxSections == 3     \* most sections of a long scanned body

----------------------------------------------------------------------------
(* Strings and optional values *)

None == << >>
Some(s) == << s >>
IsSome(o) == Len(o) = 1
Get(o) == o[1]

Chars == {"a", " "}

RECURSIVE StringsOfLen(_)
StringsOfLen(n) ==
    IF n = 0 THEN { << >> }
    ELSE { <<c>> \o s : c \in Chars, s \in StringsOfLen(n - 1) }

StringsUpTo(n) == UNION { StringsOfLen(k) : k \in 0..n }

IsWhitespace(c) == c = " "

\* String.prototype.trim(): strips leading and trailing whitespace
RECURSIVE TrimStart(_)
TrimStart(s) ==
    IF s # << >> /\ IsWhitespace(Head(s)) THEN TrimStart(Tail(s)) ELSE s

RECURSIVE TrimEnd(_)
TrimEnd(s) ==
    IF s # << >> /\ IsWhitespace(s[Len(s)])
    THEN TrimEnd(SubSeq(s, 1, Len(s) - 1)) ELSE s

Trim(s) == TrimEnd(TrimStart(s))

\* needle occurs in hay as a contiguous run
Contains(hay, needle) ==
    \E i \in 1..(Len(hay) - Len(needle) + 1) :
        SubSeq(hay, i, i + Len(needle) - 1) = needle

----------------------------------------------------------------------------
(* Violation records and the Report *)

NoDetails == << >>
NoCount == None

\* One Violation: `desc` is the fixed text of `description`, `count` the number
\* interpolated into it (NoCount when the text holds none), `details` the
\* optional details string (NoDetails when the field is not set).
Violation(id, criterion, desc, count, impact, status, details) ==
    [id |-> id, wcagCriterion |-> criterion, description |-> desc,
     count |-> count, impact |-> impact, status |-> status, details |-> details]

CountStatus(vs, st) == Cardinality({ i \in 1..Len(vs) : vs[i].status = st })

\* variant: the percentage truncated instead of rounded
RoundPercentDown(p, t) == (100 * p) \div t

\* Math.round(x) for x = 100 * p / t >= 0: the nearest integer, halves up
RoundPercent(p, t) == (200 * p + t) \div (2 * t)

Score(passCount, total) ==
    IF total = 0 THEN 100 ELSE RoundPercent(passCount, total)

\* variant: every record that is not a fail counted as passed
PassCountNotFail(vs) == Len(vs) - CountStatus(vs, "fail")

PassCount(vs) == CountStatus(vs, "pass")

BuildReport(fileType, vs, metaTitle) ==
    [fileType |-> fileType,
     complianceScore |-> Score(PassCount(vs), Len(vs)),
     passedChecks |-> PassCount(vs),
     totalChecks |-> Len(vs),
     violations |-> vs,
     title |-> metaTitle]

NotFetched == [what |-> "nothing"]

----------------------------------------------------------------------------
(* checkDocx: inputs *)

\* docProps/core.xml as the ZIP reader and the XML parser deliver it:
\*   missing     zip.file(...) returns null
\*   unparsable  parseStringPromise rejects
\*   badroot     the parsed document has no cp:coreProperties element
\*   ok          cp:coreProperties is present; dcTitle is core['dc:title']?.[0] || ''
CoreParts ==
    { [what |-> "core", state |-> st, dcTitle |-> << >>] :
        st \in {"missing", "unparsable", "badroot"} }
    \cup { [what |-> "core", state |-> "ok", dcTitle |-> t] :
             t \in StringsUpTo(MaxTitleLen) }

\* Style definitions of word/styles.xml: w:styleId, w:name/@w:val, w:basedOn/@w:val
StyleDefs ==
    { [styleId |-> "Heading1", name |-> "heading 1", basedOn |-> "Normal"],
      [styleId |-> "Nagwek1",  name |-> "Naglowek 1", basedOn |-> "Normalny"],
      [styleId |-> "Custom",   name |-> "Chapter",   basedOn |-> "Heading 1"],
      [styleId |-> "Title",    name |-> "Title",     basedOn |-> "Normal"],
      [styleId |-> "",         name |-> "heading 1", basedOn |-> ""] }

\* word/styles.xml: missing, or its text (hasLang: the text includes 'w:lang')
\* which either parses into a set of style definitions or does not parse
StylesParts ==
    { [what |-> "styles", state |-> "missing", hasLang |-> FALSE, styles |-> {}] }
    \cup { [what |-> "styles", state |-> "unparsable", hasLang |-> l, styles |-> {}] :
             l \in BOOLEAN }
    \cup { [what |-> "styles", state |-> "ok", hasLang |-> l, styles |-> S] :
             l \in BOOLEAN, S \in SUBSET StyleDefs }

\* Values of the w:val attributes that occur in word/document.xml
BodyVals == {"Heading1", "nagwek1", "Normal"}

\* An attribute of a <wp:docPr> tag, written with double quotes: missing, "",
\* whitespace only, or text
AttrValues == { None, Some(<< >>), Some(<<" ">>), Some(<<"a">>) }

\* The <wp:docPr ...> tags that xml.match(/<wp:docPr[^>]*>/g) returns: a tag
\* with one of the two attributes in each of its forms, with neither, with both
ImgTags ==
    { [descr |-> d, title |-> None] : d \in AttrValues }
    \cup { [descr |-> None, title |-> t] : t \in AttrValues }
    \cup { [descr |-> Some(<<"a">>), title |-> Some(<<"a">>)] }

RECURSIVE SeqsOfLen(_, _)
SeqsOfLen(S, n) ==
    IF n = 0 THEN { << >> }
    ELSE { <<x>> \o s : x \in S, s \in SeqsOfLen(S, n - 1) }

SeqsUpTo(S, n) == UNION { SeqsOfLen(S, k) : k \in 0..n }

\* word/document.xml: missing, or a body with its w:val values and image tags
BodyParts ==
    { [what |-> "body", state |-> "missing", vals |-> {}, imgTags |-> << >>] }
    \cup { [what |-> "body", state |-> "ok", vals |-> V, imgTags |-> tags] :
             V \in SUBSET BodyVals, tags \in SeqsUpTo(ImgTags, MaxImages) }

----------------------------------------------------------------------------
(* checkDocx: the regular expressions, over the strings of the model.      *)
(* "Naglowek 1" stands for the Polish style name written with l-stroke and *)
(* o-acute, which is the spelling /nag[l|l-stroke]o-acute-wek/ matches.     *)

\* String.prototype.toLowerCase and the `i` flag, on the model's strings
Lower(s) ==
    CASE s = "Heading1"   -> "heading1"
      [] s = "Heading 1"  -> "heading 1"
      [] s = "Nagwek1"    -> "nagwek1"
      [] s = "Naglowek 1" -> "naglowek 1"
      [] s = "Custom"     -> "custom"
      [] s = "Chapter"    -> "chapter"
      [] s = "Title"      -> "title"
      [] s = "Normal"     -> "normal"
      [] s = "Normalny"   -> "normalny"
      [] OTHER            -> s

\* /heading\s*[0-9]|nag[l..]owek\s*[0-9]|tytul/i.test(nameVal)
IsHeadingName(nameVal) == nameVal \in {"heading 1", "naglowek 1"}

\* /heading\s*[0-9]|nag[l..]owek/i.test(basedOn)
IsHeadingBasedOn(basedOn) == basedOn \in {"heading 1", "naglowek 1"}

\* /heading[0-9]/i.test(styleId || '')
IsHeadingId(styleId) == Lower(styleId) \in {"heading1"}

\* the body of styleArray.forEach: the style IDs added to headingStyleIds
CollectHeadingStyleIds(styles) ==
    { st.styleId : st \in
        { x \in styles :
            /\ x.styleId # ""
            /\ \/ IsHeadingName(Lower(x.name))
               \/ IsHeadingBasedOn(Lower(x.basedOn))
               \/ IsHeadingId(x.styleId) } }

\* variant: the style ID matched with regard to case
UsesStyleExactCase(vals, id) == id \in vals

\* new RegExp(`w:val=["']${escapedId}["']`, 'i').test(xml)
UsesStyle(vals, id) == \E v \in vals : Lower(v) = Lower(id)

\* fallbackRegex.test(xml): a w:val that is Heading/Naglowek/Tytul + digits
MatchesFallback(vals) == \E v \in vals : Lower(v) \in {"heading1"}

DetectHeadings(vals, ids) ==
    LET byStyle == ids # {} /\ \E id \in ids : UsesStyle(vals, id)
    IN  IF byStyle THEN TRUE ELSE MatchesFallback(vals)

\* /attr="[^"]+"/.test(tag)
MatchesNonEmptyAttr(a) == IsSome(a) /\ Len(Get(a)) >= 1

\* /attr=""/.test(tag)
MatchesEmptyAttr(a) == IsSome(a) /\ Get(a) = << >>

\* /attr="\s*"/.test(tag)
MatchesBlankAttr(a) ==
    IsSome(a) /\ \A i \in 1..Len(Get(a)) : IsWhitespace(Get(a)[i])

\* variant: a whitespace-only descr accepted as a description
HasDescrAnyText(tag) == MatchesNonEmptyAttr(tag.descr)

HasDescr(tag) ==
    /\ MatchesNonEmptyAttr(tag.descr)
    /\ ~MatchesEmptyAttr(tag.descr)
    /\ ~MatchesBlankAttr(tag.descr)

HasTitle(tag) == MatchesNonEmptyAttr(tag.title)

\* imgTags.forEach(...): the number of tags that lack both
RECURSIVE CountMissingAlt(_)
CountMissingAlt(tags) ==
    IF tags = << >> THEN 0
    ELSE (IF ~HasDescr(Head(tags)) /\ ~HasTitle(Head(tags)) THEN 1 ELSE 0)
         + CountMissingAlt(Tail(tags))

----------------------------------------------------------------------------
(* checkDocx: the records it pushes *)

\* `Znaleziony tytul: "${title}"`
DocxTitleDetails(t) == <<"Znaleziony tytul: ", "\"">> \o t \o <<"\"">>

DocxTitleRecord(t) ==
    IF t = << >> \/ Len(Trim(t)) = 0
    THEN Violation("meta-title", "2.4.2", "Tytul dokumentu nie zostal znaleziony",
                   NoCount, "serious", "fail", NoDetails)
    ELSE Violation("meta-title", "2.4.2", "Tytul dokumentu jest obecny",
                   NoCount, "moderate", "pass", DocxTitleDetails(t))

DocxNoCoreRecord ==
    Violation("meta-title", "2.4.2", "Nie udalo sie odczytac wlasciwosci dokumentu",
              NoCount, "serious", "fail", NoDetails)

DocxLangRecord(found) ==
    IF found
    THEN Violation("meta-lang", "3.1.1", "Atrybut jezyka wykryty w stylach",
                   NoCount, "moderate", "pass", NoDetails)
    ELSE Violation("meta-lang", "3.1.1", "Nie znaleziono definicji jezyka",
                   NoCount, "moderate", "warning", NoDetails)

DocxHeadingsRecord(hasHeadings) ==
    IF hasHeadings
    THEN Violation("structure-headings", "1.3.1", "Wykryto naglowki",
                   NoCount, "serious", "pass", NoDetails)
    ELSE Violation("structure-headings", "1.3.1", "Nie wykryto stylow naglowkow",
                   NoCount, "serious", "fail", NoDetails)

DocxImagesRecord(hasImages, imagesMissingAlt) ==
    IF hasImages
    THEN IF imagesMissingAlt = 0
         THEN Violation("images-alt", "1.1.1",
                        "Wszystkie obrazy maja tekst alternatywny",
                        NoCount, "critical", "pass", NoDetails)
         ELSE Violation("images-alt", "1.1.1",
                        "Znaleziono N obrazow bez tekstu alternatywnego",
                        Some(imagesMissingAlt), "critical", "fail", NoDetails)
    ELSE Violation("images-alt", "1.1.1", "Nie znaleziono obrazow",
                   NoCount, "minor", "pass", NoDetails)

----------------------------------------------------------------------------
(* checkDocx: the run *)

\* the locals of a call before it starts and after it has returned or thrown
NoLocals ==
    /\ title' = << >>
    /\ langFound' = FALSE
    /\ headingStyleIds' = {}
    /\ pageIdx' = 0
    /\ totalTextLength' = 0

Throw ==
    /\ pc' = "threw"
    /\ NoLocals
    /\ UNCHANGED <<violations, report>>

\* file.arrayBuffer() and JSZip.loadAsync: the container opens or the call rejects
CheckDocxStart ==
    /\ pc = "idle"
    /\ \E opens \in BOOLEAN :
         /\ fetched' = [what |-> "zip", opens |-> opens]
         /\ IF opens
            THEN /\ pc' = "docx_title"
                 /\ UNCHANGED <<violations, title, langFound, headingStyleIds,
                                pageIdx, totalTextLength, report>>
            ELSE Throw
    /\ UNCHANGED nonAnalyserVars

\* 1. Meta Data Check (Title)
DocxTitleCheck ==
    /\ pc = "docx_title"
    /\ \E core \in CoreParts :
         /\ fetched' = core
         /\ CASE core.state = "missing" ->
                   /\ violations' = Append(violations, DocxNoCoreRecord)
                   /\ pc' = "await_docx_styles"
                   /\ UNCHANGED <<title, langFound, headingStyleIds,
                                  pageIdx, totalTextLength, report>>
              [] core.state = "ok" ->
                   /\ title' = core.dcTitle
                   /\ violations' = Append(violations, DocxTitleRecord(core.dcTitle))
                   /\ pc' = "await_docx_styles"
                   /\ UNCHANGED <<langFound, headingStyleIds,
                                  pageIdx, totalTextLength, report>>
              [] OTHER -> Throw
    /\ UNCHANGED nonAnalyserVars

\* The run leaves the block of the part it has checked (its `xml` local goes out
\* of scope) and suspends at the await that reads the next part.
DocxAwaitPart ==
    /\ pc \in {"await_docx_styles", "await_docx_body"}
    /\ pc' = IF pc = "await_docx_styles" THEN "docx_styles" ELSE "docx_body"
    /\ fetched' = NotFetched
    /\ UNCHANGED <<violations, title, langFound, headingStyleIds,
                   pageIdx, totalTextLength, report>>
    /\ UNCHANGED nonAnalyserVars

\* 2. Language & Style Analysis
DocxStylesCheck ==
    /\ pc = "docx_styles"
    /\ \E st \in StylesParts :
         /\ fetched' = st
         /\ langFound' = (st.state # "missing" /\ st.hasLang)
         /\ headingStyleIds' =
                IF st.state = "ok" THEN CollectHeadingStyleIds(st.styles) ELSE {}
         /\ violations' =
                Append(violations, DocxLangRecord(st.state # "missing" /\ st.hasLang))
    /\ pc' = "await_docx_body"
    /\ UNCHANGED <<title, pageIdx, totalTextLength, report>>
    /\ UNCHANGED nonAnalyserVars

\* 3. Headings & Structure, 4. Images & Alt Text, score and return
DocxBodyCheck ==
    /\ pc = "docx_body"
    /\ \E body \in BodyParts :
         LET hasHeadings == body.state = "ok"
                            /\ DetectHeadings(body.vals, headingStyleIds)
             hasImages == body.state = "ok" /\ Len(body.imgTags) > 0
             imagesMissingAlt == IF body.state = "ok"
                                 THEN CountMissingAlt(body.imgTags) ELSE 0
             vs == violations \o << DocxHeadingsRecord(hasHeadings),
                                    DocxImagesRecord(hasImages, imagesMissingAlt) >>
         IN  /\ fetched' = body
             /\ violations' = vs
             /\ report' = << BuildReport("docx", vs, Some(title)) >>
    /\ pc' = "done"
    /\ NoLocals
    /\ UNCHANGED nonAnalyserVars

----------------------------------------------------------------------------
(* checkPdf: inputs *)

Untitled == <<"U", "n", "t", "i", "t", "l", "e", "d">>

\* metadataReq of pdf.getMetadata(): info?.Title (None when undefined) and the
\* XMP metadata object (present or null; its dc:language entry when it has one)
PdfMetadata ==
    { [what |-> "metadata", infoTitle |-> t, xmpPresent |-> x, dcLanguage |-> l] :
        t \in {None, Some(Untitled)} \cup { Some(u) : u \in StringsUpTo(MaxTitleLen) },
        x \in BOOLEAN,
        l \in {None, Some(<< >>), Some(<<"p", "l">>)} }

\* pdf.getOutline(): null, or a list of this many top-level items
PdfOutlines == { [what |-> "outline", isNull |-> TRUE, length |-> 0] }
               \cup { [what |-> "outline", isNull |-> FALSE, length |-> n] : n \in 0..1 }

\* content.items of one page: the lengths of the item strings
PageContents == { << >>, <<24>>, <<24, 1>> }

\* the pages of the document, pdf.numPages of them
PdfPages == { [what |-> "pages", pages |-> ps] :
                ps \in UNION { SeqsOfLen(PageContents, n) : n \in 1..MaxPages } }

\* What a structure-tree node carries besides its children: role, the alt
\* property, and dictAlt: None when the node has no dict, else Some(entry) with
\* entry the optional string dict.get('Alt') returns
NodeKinds ==
    { [role |-> "Sect",   alt |-> None,         dictAlt |-> None],
      [role |-> "figure", alt |-> None,         dictAlt |-> None],
      [role |-> "Figure", alt |-> None,         dictAlt |-> None],
      [role |-> "Figure", alt |-> Some(<<"a">>), dictAlt |-> None],
      [role |-> "Figure", alt |-> Some(<<" ">>), dictAlt |-> Some(Some(<<"a">>))],
      [role |-> "Figure", alt |-> None,         dictAlt |-> Some(Some(<<" ">>))] }

RECURSIVE TreesOfSize(_)
RECURSIVE ForestsOfSize(_)
\* the structure trees with exactly n nodes
TreesOfSize(n) ==
    { [role |-> k.role, alt |-> k.alt, dictAlt |-> k.dictAlt, children |-> f] :
        k \in NodeKinds, f \in ForestsOfSize(n - 1) }

\* the child lists with exactly n nodes in all
ForestsOfSize(n) ==
    IF n = 0 THEN { << >> }
    ELSE UNION { { <<t>> \o f : t \in TreesOfSize(k), f \in ForestsOfSize(n - k) } :
                   k \in 1..n }

LeafNode == [role |-> "", alt |-> None, dictAlt |-> None, children |-> << >>]

\* pdf.getStructTree(): it resolves to null (an untagged document), it resolves
\* to the tree of a tagged document, or it rejects although the document holds
\* a tree (root is then the tree that was not delivered)
StructTrees ==
    { [what |-> "structTree", state |-> "null", root |-> LeafNode] }
    \cup { [what |-> "structTree", state |-> st, root |-> t] :
             st \in {"tree", "throws"},
             t \in UNION { TreesOfSize(n) : n \in 1..MaxNodes } }

----------------------------------------------------------------------------
(* checkPdf: the records it pushes *)

\* `Tytul: "${title}"`
PdfTitleDetails(t) == <<"Tytul: ", "\"">> \o t \o <<"\"">>

\* title && title.trim().length > 0 && title !== 'Untitled'
PdfTitleOk(infoTitle) ==
    /\ IsSome(infoTitle)
    /\ Get(infoTitle) # << >>
    /\ Len(Trim(Get(infoTitle))) > 0
    /\ Get(infoTitle) # Untitled

PdfTitleRecord(infoTitle) ==
    IF PdfTitleOk(infoTitle)
    THEN Violation("meta-title", "2.4.2", "Tytul pliku PDF jest obecny",
                   NoCount, "moderate", "pass", PdfTitleDetails(Get(infoTitle)))
    ELSE Violation("meta-title", "2.4.2", "Brak znaczacego tytulu PDF",
                   NoCount, "serious", "fail", NoDetails)

\* let lang = null; if (metadata && metaAny.has('dc:language')) lang = get(...)
PdfLang(meta) ==
    IF meta.xmpPresent /\ IsSome(meta.dcLanguage) THEN meta.dcLanguage ELSE None

\* `Jezyk: ${lang}`
PdfLangDetails(l) == <<"Jezyk: ">> \o l

PdfLangRecord(lang) ==
    IF IsSome(lang) /\ Get(lang) # << >>
    THEN Violation("meta-lang", "3.1.1", "Jezyk okreslony",
                   NoCount, "moderate", "pass", PdfLangDetails(Get(lang)))
    ELSE Violation("meta-lang", "3.1.1", "Nie znaleziono jezyka w metadanych",
                   NoCount, "moderate", "warning", NoDetails)

\* variant: the bookmarks record pushed as a warning
PdfBookmarksRecordAsWarning ==
    Violation("nav-bookmarks", "2.4.5", "Wykryto zakladki / spis tresci",
              NoCount, "minor", "warning", NoDetails)

PdfBookmarksRecord ==
    Violation("nav-bookmarks", "2.4.5", "Wykryto zakladki / spis tresci",
              NoCount, "minor", "pass", NoDetails)

\* if (totalTextLength < 50)
OcrMinTextLength == 50

PdfOcrRecord(textLength) ==
    IF textLength < OcrMinTextLength
    THEN Violation("ocr-text", "1.4.5", "Wykryto bardzo malo tekstu. Skan PDF?",
                   NoCount, "critical", "warning", NoDetails)
    ELSE Violation("ocr-text", "1.4.5", "Wykryto tresc tekstowa",
                   NoCount, "critical", "pass", NoDetails)

PdfTaggedRecord ==
    Violation("structure-tags", "1.3.1", "Wykryto tagi strukturalne (PDF Tagged)",
              NoCount, "serious", "pass", NoDetails)

PdfUntaggedRecord ==
    Violation("structure-tags", "1.3.1", "Brak struktury tagow (Untagged PDF)",
              NoCount, "critical", "fail", NoDetails)

PdfNoTagsAltRecord ==
    Violation("pdf-images-alt", "1.1.1",
              "Nie mozna sprawdzic tekstow alternatywnych (brak tagow)",
              NoCount, "critical", "fail", NoDetails)

PdfFiguresRecord(figuresFound, figuresMissingAlt) ==
    IF figuresFound > 0
    THEN IF figuresMissingAlt = 0
         THEN Violation("pdf-images-alt", "1.1.1",
                        "Wszystkie figury (obrazy) w strukturze maja tekst alternatywny",
                        NoCount, "critical", "pass", NoDetails)
         ELSE Violation("pdf-images-alt", "1.1.1",
                        "Znaleziono N figur bez tekstu alternatywnego (Alt)",
                        Some(figuresMissingAlt), "critical", "fail", NoDetails)
    ELSE Violation("pdf-images-alt", "1.1.1",
                   "Nie znaleziono oznaczonych figur (obrazow) w strukturze",
                   NoCount, "moderate", "warning", NoDetails)

----------------------------------------------------------------------------
(* checkPdf: text-layer sampling and the structure-tree traversal *)

\* strings.join('').length: the lengths of the item strings added up
RECURSIVE JoinedLength(_)
JoinedLength(items) ==
    IF items = << >> THEN 0 ELSE Head(items) + JoinedLength(Tail(items))

\* the pages sampled at most
SampledPages == 5

Min(a, b) == IF a <= b THEN a ELSE b

\* variant: every page sampled
PagesToCheckAll(numPages) == numPages

\* const pagesToCheck = Math.min(pdf.numPages, 5)
PagesToCheck(numPages) == Min(numPages, SampledPages)

\* variant: the role compared without regard to case
IsFigureIgnoreCase(node) == node.role \in {"Figure", "figure"}

\* if (role === 'Figure'), with role = node.role || ''
IsFigure(node) == node.role = "Figure"

\* x && typeof x === 'string' && x.trim().length > 0, for an optional string x
NonBlank(x) == IsSome(x) /\ Get(x) # << >> /\ Len(Trim(Get(x))) > 0

\* hasAlt of a figure node: its alt, else the Alt entry of its dict
NodeHasAlt(node) ==
    IF NonBlank(node.alt) THEN TRUE
    ELSE IF IsSome(node.dictAlt) THEN NonBlank(Get(node.dictAlt))
    ELSE FALSE

\* traverse(node): what the call adds to figuresFound and figuresMissingAlt
RECURSIVE Traverse(_)
RECURSIVE TraverseChildren(_)
Traverse(node) ==
    LET own == IF IsFigure(node)
               THEN [found |-> 1, missing |-> IF NodeHasAlt(node) THEN 0 ELSE 1]
               ELSE [found |-> 0, missing |-> 0]
        sub == TraverseChildren(node.children)
    IN  [found |-> own.found + sub.found, missing |-> own.missing + sub.missing]

\* for (const child of node.children) traverse(child)
TraverseChildren(children) ==
    IF children = << >> THEN [found |-> 0, missing |-> 0]
    ELSE LET h == Traverse(Head(children))
             t == TraverseChildren(Tail(children))
         IN  [found |-> h.found + t.found, missing |-> h.missing + t.missing]

----------------------------------------------------------------------------
(* checkPdf: the run *)

\* `https://unpkg.com/pdfjs-dist@${pdfjsLib.version}/build/pdf.worker.min.mjs`
WorkerUrl == "https://unpkg.com/pdfjs-dist@version/build/pdf.worker.min.mjs"

\* await import('pdfjs-dist'), the assignment to GlobalWorkerOptions.workerSrc,
\* and the run suspends at await file.arrayBuffer()
CheckPdfStart ==
    /\ pc = "idle"
    /\ pc' = "pdf_load"
    /\ workerSrc' = Some([url |-> WorkerUrl, by |-> running])
    /\ fetched' = NotFetched
    /\ UNCHANGED <<violations, title, langFound, headingStyleIds,
                   pageIdx, totalTextLength, report>>
    /\ UNCHANGED <<hierarchyVars, pageVars, running, suspended, workerReads>>

\* pdfjsLib.getDocument(arrayBuffer), which sets up its worker from workerSrc,
\* and await leadingTask.promise: the document loads or the promise rejects
PdfLoadDocument ==
    /\ pc = "pdf_load"
    /\ workerReads' = workerReads \cup
          { [by |-> running, from |-> Get(workerSrc).by, url |-> Get(workerSrc).url] }
    /\ \E loads \in (IF Get(workerSrc).url = WorkerUrl THEN BOOLEAN ELSE {FALSE}) :
         /\ fetched' = [what |-> "pdf", loads |-> loads]
         /\ IF loads
            THEN /\ pc' = "pdf_meta"
                 /\ UNCHANGED <<violations, title, langFound, headingStyleIds,
                                pageIdx, totalTextLength, report>>
            ELSE Throw
    /\ UNCHANGED <<hierarchyVars, pageVars, running, suspended, workerSrc>>

\* 1. Title Check, 2. Language Check
PdfMetaCheck ==
    /\ pc = "pdf_meta"
    /\ \E meta \in PdfMetadata :
         /\ fetched' = meta
         /\ title' = meta.infoTitle
         /\ violations' = violations \o << PdfTitleRecord(meta.infoTitle),
                                           PdfLangRecord(PdfLang(meta)) >>
    /\ pc' = "await_pdf_outline"
    /\ UNCHANGED <<langFound, headingStyleIds, pageIdx, totalTextLength, report>>
    /\ UNCHANGED nonAnalyserVars

\* The run suspends at its next await; the value it got from the previous one
\* is no longer referenced, and neither are the loop variable and the text
\* length once the text-layer record is pushed.
PdfAwaitCall ==
    /\ pc \in {"await_pdf_outline", "await_pdf_text", "await_pdf_struct"}
    /\ pc' = CASE pc = "await_pdf_outline" -> "pdf_outline"
                [] pc = "await_pdf_text"    -> "pdf_text"
                [] OTHER                    -> "pdf_struct"
    /\ fetched' = NotFetched
    /\ pageIdx' = 0
    /\ totalTextLength' = 0
    /\ UNCHANGED <<violations, title, langFound, headingStyleIds, report>>
    /\ UNCHANGED nonAnalyserVars

\* 3. bookmarks: a record only for a non-empty outline
PdfOutlineCheck ==
    /\ pc = "pdf_outline"
    /\ \E outline \in PdfOutlines :
         /\ fetched' = outline
         /\ violations' = IF ~outline.isNull /\ outline.length > 0
                          THEN Append(violations, PdfBookmarksRecord)
                          ELSE violations
    /\ pc' = "await_pdf_text"
    /\ UNCHANGED <<title, langFound, headingStyleIds, pageIdx, totalTextLength, report>>
    /\ UNCHANGED nonAnalyserVars

\* let totalTextLength = 0; the document's pages are what getPage will deliver
PdfTextStart ==
    /\ pc = "pdf_text"
    /\ \E doc \in PdfPages : fetched' = doc
    /\ pageIdx' = 1
    /\ totalTextLength' = 0
    /\ pc' = "pdf_page_loop"
    /\ UNCHANGED <<violations, title, langFound, headingStyleIds, report>>
    /\ UNCHANGED nonAnalyserVars

\* one iteration of for (let i = 1; i <= pagesToCheck; i++)
PdfReadPage ==
    /\ pc = "pdf_page_loop"
    /\ pageIdx <= PagesToCheck(Len(fetched.pages))
    /\ totalTextLength' = totalTextLength + JoinedLength(fetched.pages[pageIdx])
    /\ pageIdx' = pageIdx + 1
    /\ UNCHANGED <<pc, fetched, violations, title, langFound, headingStyleIds, report>>
    /\ UNCHANGED nonAnalyserVars

\* the loop is over: the text-layer record
PdfOcrCheck ==
    /\ pc = "pdf_page_loop"
    /\ ~(pageIdx <= PagesToCheck(Len(fetched.pages)))
    /\ violations' = Append(violations, PdfOcrRecord(totalTextLength))
    /\ pc' = "await_pdf_struct"
    /\ UNCHANGED <<fetched, title, langFound, headingStyleIds,
                   pageIdx, totalTextLength, report>>
    /\ UNCHANGED nonAnalyserVars

\* variant: a rejected retrieval treated like a delivered tree
StructTreeEvenIfThrown(st) ==
    IF st.state \in {"tree", "throws"} THEN Some(st.root) ELSE None

\* let structTree = null; try { structTree = await getStructTree() } catch {}
StructTreeOrNull(st) == IF st.state = "tree" THEN Some(st.root) ELSE None

\* variant: the alternative-text record pushed before the structure-tags record
PdfStructRecordsAltFirst(structTree) ==
    IF IsSome(structTree)
    THEN LET counts == Traverse(Get(structTree))
         IN  << PdfFiguresRecord(counts.found, counts.missing), PdfTaggedRecord >>
    ELSE << PdfNoTagsAltRecord, PdfUntaggedRecord >>

\* if (structTree) {...} else {...}: the two records of the structure check
PdfStructRecords(structTree) ==
    IF IsSome(structTree)
    THEN LET counts == Traverse(Get(structTree))
         IN  << PdfTaggedRecord, PdfFiguresRecord(counts.found, counts.missing) >>
    ELSE << PdfUntaggedRecord, PdfNoTagsAltRecord >>

\* 4. Structure Tree & Alt Text Check, final score and return
PdfStructCheck ==
    /\ pc = "pdf_struct"
    /\ \E st \in StructTrees :
         LET vs == violations \o PdfStructRecords(StructTreeOrNull(st))
         IN  /\ fetched' = st
             /\ violations' = vs
             /\ report' = << BuildReport("pdf", vs, title) >>
    /\ pc' = "done"
    /\ NoLocals
    /\ UNCHANGED nonAnalyserVars

----------------------------------------------------------------------------
(* The analysers' specification *)

\* the locals of an invocation that has not started
NotStarted ==
    [pc |-> "idle", violations |-> << >>, title |-> << >>, langFound |-> FALSE,
     headingStyleIds |-> {}, pageIdx |-> 0, totalTextLength |-> 0, report |-> << >>]

Init ==
    /\ pc = "idle"
    /\ fetched = NotFetched
    /\ violations = << >>
    /\ title = << >>
    /\ langFound = FALSE
    /\ headingStyleIds = {}
    /\ pageIdx = 0
    /\ totalTextLength = 0
    /\ report = << >>
    /\ headingSeq = << >>
    /\ headingIdx = 0
    /\ lastLevel = 0
    /\ hierarchyFlags = {}
    /\ headingRecords = << >>
    /\ isProcessing = FALSE
    /\ homeReport = << >>
    /\ error = << >>
    /\ calls = << >>
    /\ alerted = {}
    /\ running = 1
    /\ suspended = NotStarted
    /\ workerSrc = << >>
    /\ workerReads = {}

Next ==
    \/ CheckDocxStart
    \/ DocxTitleCheck
    \/ DocxAwaitPart
    \/ DocxStylesCheck
    \/ DocxBodyCheck
    \/ CheckPdfStart
    \/ PdfLoadDocument
    \/ PdfMetaCheck
    \/ PdfAwaitCall
    \/ PdfOutlineCheck
    \/ PdfTextStart
    \/ PdfReadPage
    \/ PdfOcrCheck
    \/ PdfStructCheck

Spec == Init /\ [][Next]_vars

----------------------------------------------------------------------------
(* Two invocations of the same analyser on the same file.  Both run on the  *)
(* one JavaScript thread: an invocation executes up to its next await, and  *)
(* the other may be resumed there.  The locals of the invocation that is    *)
(* not executing are held in `suspended`.  The two are given the same file, *)
(* so the invocation that is behind is delivered, at each await, the value  *)
(* the other was delivered there; to have that value at hand the one ahead  *)
(* waits at its await until the other has caught up.                        *)

\* how far an invocation has got
Progress(p, idx) ==
    CASE p = "idle"              -> 0
      [] p = "docx_title"        -> 1
      [] p = "await_docx_styles" -> 2
      [] p = "docx_styles"       -> 3
      [] p = "await_docx_body"   -> 4
      [] p = "docx_body"         -> 5
      [] p = "pdf_load"          -> 1
      [] p = "pdf_meta"          -> 2
      [] p = "await_pdf_outline" -> 3
      [] p = "pdf_outline"       -> 4
      [] p = "await_pdf_text"    -> 5
      [] p = "pdf_text"          -> 6
      [] p = "pdf_page_loop"     -> 6 + idx
      [] p = "await_pdf_struct"  -> 8 + MaxPages
      [] p = "pdf_struct"        -> 9 + MaxPages
      [] OTHER                   -> 10 + MaxPages

Ahead == Progress(pc, pageIdx) > Progress(suspended.pc, suspended.pageIdx)

Behind == Progress(pc, pageIdx) < Progress(suspended.pc, suspended.pageIdx)

\* variant: one list of records at module level, shared by the invocations
SharedList(own, other) == other

\* const violations: Violation[] = [] is a local: each invocation has its own
OwnList(own, other) == own

\* the executing invocation is suspended at its await, the other is resumed
Switch ==
    /\ Ahead
    /\ suspended' = [pc |-> pc, violations |-> violations, title |-> title,
                     langFound |-> langFound, headingStyleIds |-> headingStyleIds,
                     pageIdx |-> pageIdx, totalTextLength |-> totalTextLength,
                     report |-> report]
    /\ pc' = suspended.pc
    /\ violations' = OwnList(suspended.violations, violations)
    /\ title' = suspended.title
    /\ langFound' = suspended.langFound
    /\ headingStyleIds' = suspended.headingStyleIds
    /\ pageIdx' = suspended.pageIdx
    /\ totalTextLength' = suspended.totalTextLength
    /\ report' = suspended.report
    /\ running' = 3 - running
    /\ UNCHANGED <<fetched, workerSrc, workerReads>>
    /\ UNCHANGED <<hierarchyVars, pageVars>>

\* a step of the executing invocation: it is not ahead of the other, and if
\* it is behind it is delivered what the other was delivered
SameFileStep ==
    /\ ~Ahead
    /\ IF Behind THEN fetched' = fetched ELSE TRUE
    /\ Next

NextTwoRuns ==
    \/ SameFileStep
    \/ Switch

SpecTwoRuns == Init /\ [][NextTwoRuns]_vars

----------------------------------------------------------------------------
(* Heading-hierarchy scan (spec.md section 4.1, check 3).  The scan walks  *)
(* the heading levels of the body in document order, tracks lastLevel and  *)
(* flags the positions whose transition breaks the hierarchy rule.         *)

MaxHeadingLevel == 6

HeadingLevels == 1..MaxHeadingLevel

\* variants of the hierarchy rule: every increase flagged; only skips of two
\* or more levels flagged; the first heading not exempted
IsHierarchyViolationAnyIncrease(last, level) == last > 0 /\ level > last

IsHierarchyViolationSkipTwo(last, level) == last > 0 /\ level > last + 2

IsHierarchyViolationNoGuard(last, level) == level > last + 1

\* the hierarchy rule: with a previous heading, the new level skips a level
IsHierarchyViolation(last, level) == last > 0 /\ level > last + 1

\* the headings of one section of a long body
HeadingSections == { <<1, 2>>, <<1, 3>>, <<1, 3, 5>> }

RECURSIVE Concat(_)
Concat(seqs) == IF seqs = << >> THEN << >> ELSE Head(seqs) \o Concat(Tail(seqs))

\* long bodies: up to MaxSections sections one after the other
LongBodies ==
    { Concat(ss) : ss \in UNION { SeqsOfLen(HeadingSections, n) : n \in 1..MaxSections } }

\* the body's heading-styled paragraphs, resolved to levels, in document
\* order: every short sequence of levels, and the long bodies
HeadingScanStart ==
    /\ headingSeq = << >>
    /\ headingRecords = << >>
    /\ \E hs \in UNION { SeqsOfLen(HeadingLevels, n) : n \in 1..MaxHeadings }
                \cup LongBodies :
         headingSeq' = hs
    /\ headingIdx' = 0
    /\ lastLevel' = 0
    /\ hierarchyFlags' = {}
    /\ UNCHANGED headingRecords
    /\ UNCHANGED nonHierarchyVars

\* the scan reaches the next heading
HeadingScanStep ==
    /\ headingIdx < Len(headingSeq)
    /\ LET level == headingSeq[headingIdx + 1]
       IN  /\ hierarchyFlags' =
                  IF IsHierarchyViolation(lastLevel, level)
                  THEN hierarchyFlags \cup {headingIdx + 1}
                  ELSE hierarchyFlags
           /\ lastLevel' = level
    /\ headingIdx' = headingIdx + 1
    /\ UNCHANGED <<headingSeq, headingRecords>>
    /\ UNCHANGED nonHierarchyVars

\* the violation descriptions put into details at most
MaxShownViolations == 5

Ellipsis == [marker |-> "..."]

\* the description of the hierarchy violation at position i: the two levels
ViolationDescription(seq, i) == [at |-> i, from |-> seq[i - 1], to |-> seq[i]]

\* the descriptions of the flagged positions, in document order
ViolationDescriptions(seq, flags) ==
    LET positions == [i \in 1..Len(seq) |-> i]
        Flagged(i) == i \in flags
        flagged == SelectSeq(positions, Flagged)
    IN  [k \in 1..Len(flagged) |-> ViolationDescription(seq, flagged[k])]

\* variant: the first descriptions without an ellipsis marker
HeadingOrderDetailsNoEllipsis(descs) ==
    SubSeq(descs, 1, Min(Len(descs), MaxShownViolations))

\* up to 5 descriptions joined, the ellipsis marker appended if more exist
HeadingOrderDetails(descs) ==
    SubSeq(descs, 1, Min(Len(descs), MaxShownViolations))
    \o (IF Len(descs) > MaxShownViolations THEN <<Ellipsis>> ELSE << >>)

\* the "heading order" record
HeadingOrderRecord(descs) ==
    IF descs = << >>
    THEN Violation("heading-order", "1.3.1", "heading hierarchy is valid",
                   NoCount, "moderate", "pass", NoDetails)
    ELSE Violation("heading-order", "1.3.1", "heading levels are skipped",
                   NoCount, "moderate", "warning", HeadingOrderDetails(descs))

\* the scan is over (at once for a body without headings): the "heading
\* presence" record and, if headings were found, the "heading order" record
HeadingRecordsEmit ==
    /\ headingIdx = Len(headingSeq)
    /\ headingRecords = << >>
    /\ headingRecords' =
          IF headingSeq # << >>
          THEN << DocxHeadingsRecord(TRUE),
                  HeadingOrderRecord(ViolationDescriptions(headingSeq, hierarchyFlags)) >>
          ELSE << DocxHeadingsRecord(FALSE) >>
    /\ UNCHANGED <<headingSeq, headingIdx, lastLevel, hierarchyFlags>>
    /\ UNCHANGED nonHierarchyVars

NextHeadings ==
    \/ HeadingScanStart
    \/ HeadingScanStep
    \/ HeadingRecordsEmit

SpecHeadings == Init /\ [][NextHeadings]_vars

----------------------------------------------------------------------------
(* The page component Home (src/app/page.tsx) with its FileUpload child     *)
(* (src/unnamed/part_000).  A handleFileSelect call is an async function:   *)
(* it runs up to its first await when the file is selected and goes on when *)
(* the promise it awaits settles; several calls can be suspended at once.   *)
(* The analyser a call awaits is seen from the page as a promise that       *)
(* resolves with the Report of the call's file or rejects.                  *)

MaxSelections == 3   \* most files selected (input changes and drops together)

PdfMime == "application/pdf"

DocxMime == "application/vnd.openxmlformats-officedocument.wordprocessingml.document"

\* file.type of the files a user selects: the two accepted types and another
FileTypes == {PdfMime, DocxMime, "text/plain"}

\* const validTypes = [...]
ValidTypes == {PdfMime, DocxMime}

\* variant: every type that is not PDF handed to checkDocx
DispatchElseDocx(type) == IF type = PdfMime THEN "checkPdf" ELSE "checkDocx"

\* the if / else if / else on file.type in handleFileSelect
Dispatch(type) ==
    IF type = PdfMime THEN "checkPdf"
    ELSE IF type = DocxMime THEN "checkDocx"
    ELSE "unsupported"

UnsupportedMessage == "Unsupported file type"

\* 'Failed to analyze document. ...' + err.message, for the call of `file`
ErrorOf(file, message) == [file |-> file.id, message |-> message]

\* the Report an analyser resolves with: fileName: file.name and fileType
ReportOf(file) ==
    [fileName |-> file.id,
     fileType |-> IF Dispatch(file.type) = "checkPdf" THEN "pdf" ELSE "docx"]

\* the files selected so far are numbered in the order of their selection
NextFileId == Len(calls) + Cardinality(alerted) + 1

\* handleFileSelect(file) up to its first await.  For an unsupported type the
\* throw is caught before any await: setError and, in finally,
\* setIsProcessing(false) run in the same step.
HandleFileSelect(file, via) ==
    LET analyser == Dispatch(file.type)
        call == [file |-> file, via |-> via, analyser |-> analyser]
    IN  IF analyser = "unsupported"
        THEN /\ isProcessing' = FALSE
             /\ error' = Some(ErrorOf(file, UnsupportedMessage))
             /\ calls' = Append(calls, call @@ [at |-> "finished", invoked |-> FALSE])
             /\ UNCHANGED homeReport
        ELSE /\ isProcessing' = TRUE
             /\ error' = None
             /\ calls' = Append(calls,
                    IF analyser = "checkPdf"
                    THEN call @@ [at |-> "import", invoked |-> FALSE]
                    ELSE call @@ [at |-> "analysis", invoked |-> TRUE])
             /\ UNCHANGED homeReport

ValidateAndUpload(file, via) ==
    IF file.type \in ValidTypes
    THEN /\ HandleFileSelect(file, via)
         /\ UNCHANGED alerted
    ELSE /\ alerted' = alerted \cup {file}
         /\ UNCHANGED <<isProcessing, homeReport, error, calls>>

\* FileUpload is rendered only while the page holds no report
UploadShown == homeReport = None

\* onChange of the file input, which is disabled while isProcessing
HandleChange ==
    /\ UploadShown
    /\ ~isProcessing
    /\ NextFileId <= MaxSelections
    /\ \E t \in FileTypes :
         ValidateAndUpload([id |-> NextFileId, type |-> t], "input")
    /\ UNCHANGED nonPageVars

\* onDrop of the drop zone, which stays active while isProcessing
HandleDrop ==
    /\ UploadShown
    /\ NextFileId <= MaxSelections
    /\ \E t \in FileTypes :
         ValidateAndUpload([id |-> NextFileId, type |-> t], "drop")
    /\ UNCHANGED nonPageVars

\* a call's catch and finally: setError(...), setIsProcessing(false)
CallFails(k, message) ==
    /\ error' = Some(ErrorOf(calls[k].file, message))
    /\ isProcessing' = FALSE
    /\ calls' = [calls EXCEPT ![k].at = "finished"]
    /\ UNCHANGED homeReport

\* await import('@/lib/accessibility/pdfChecker') settles: checkPdf(file) is
\* called, or the import rejected
ImportSettles ==
    /\ \E k \in DOMAIN calls :
         /\ calls[k].at = "import"
         /\ \E loaded \in BOOLEAN :
              IF loaded
              THEN /\ calls' = [calls EXCEPT ![k].at = "analysis",
                                             ![k].invoked = TRUE]
                   /\ UNCHANGED <<isProcessing, homeReport, error>>
              ELSE CallFails(k, "import failed")
    /\ UNCHANGED alerted
    /\ UNCHANGED nonPageVars

\* await checkPdf(file) / await checkDocx(file) settles: setReport(result) or
\* the catch, then finally
AnalysisSettles ==
    /\ \E k \in DOMAIN calls :
         /\ calls[k].at = "analysis"
         /\ \E resolved \in BOOLEAN :
              IF resolved
              THEN /\ homeReport' = Some(ReportOf(calls[k].file))
                   /\ isProcessing' = FALSE
                   /\ calls' = [calls EXCEPT ![k].at = "finished"]
                   /\ UNCHANGED error
              ELSE CallFails(k, "analysis failed")
    /\ UNCHANGED alerted
    /\ UNCHANGED nonPageVars

\* const reset: the button of ReportView, rendered while the page holds a report
Reset ==
    /\ ~UploadShown
    /\ homeReport' = None
    /\ error' = None
    /\ UNCHANGED <<isProcessing, calls, alerted>>
    /\ UNCHANGED nonPageVars

NextPage ==
    \/ HandleChange
    \/ HandleDrop
    \/ ImportSettles
    \/ AnalysisSettles
    \/ Reset

SpecPage == Init /\ [][NextPage]_vars

----------------------------------------------------------------------------
(* Properties *)

Returned == report # << >>

TheReport == report[1]

StatusCount(vs, st) == Cardinality({ i \in DOMAIN vs : vs[i].status = st })

\* C1: in every Report returned by checkDocx or checkPdf, totalChecks is the
\* length of the violations list and passedChecks is the number of its records
\* whose status is pass; fail, warning and manual records count toward
\* totalChecks only.
ReportCountsMatchViolations ==
    Returned =>
        /\ TheReport.violations = violations
        /\ TheReport.totalChecks = Len(TheReport.violations)
        /\ TheReport.passedChecks = StatusCount(TheReport.violations, "pass")
        /\ TheReport.totalChecks =
              TheReport.passedChecks
              + StatusCount(TheReport.violations, "fail")
              + StatusCount(TheReport.violations, "warning")
              + StatusCount(TheReport.violations, "manual")

\* a Report holding passes next to a warning and a fail
WitnessMixedReport ==
    /\ Returned
    /\ StatusCount(TheReport.violations, "pass") >= 1
    /\ StatusCount(TheReport.violations, "warning") >= 1
    /\ StatusCount(TheReport.violations, "fail") >= 1

\* s is 100 * p / t rounded to the nearest integer, a half rounded up
IsRoundedPercent(s, p, t) ==
    /\ 2 * t * s - t <= 200 * p
    /\ 200 * p < 2 * t * s + t

\* C2: in every Report, complianceScore is 100 when totalChecks is 0, else
\* round(100 * passedChecks / totalChecks), and always an integer in 0..100;
\* the score computed for an empty list is 100.
ScoreIsRoundedPercentage ==
    /\ Score(0, 0) = 100
    /\ Returned =>
          /\ TheReport.complianceScore \in 0..100
          /\ TheReport.totalChecks = 0 => TheReport.complianceScore = 100
          /\ TheReport.totalChecks > 0 =>
                IsRoundedPercent(TheReport.complianceScore,
                                 TheReport.passedChecks, TheReport.totalChecks)

\* a Report whose percentage is not a whole number: 4 of 6 checks passed, 67
WitnessRoundedScore ==
    /\ Returned
    /\ TheReport.totalChecks = 6
    /\ TheReport.passedChecks = 4
    /\ TheReport.complianceScore = 67

ScanFinished == headingSeq # << >> /\ headingIdx = Len(headingSeq)

LastRecord == violations[Len(violations)]

BodyChecked == pc = "done" /\ fetched.what = "body"

CountWhere(xs, P(_)) == Cardinality({ i \in DOMAIN xs : P(xs[i]) })

\* the images-alt record the claim describes, for a reading Missing of
\* "the image has neither a description nor a title"
ImagesAltAsDescribed(tags, Missing(_)) ==
    LET r == LastRecord
        missing == CountWhere(tags, Missing)
    IN  /\ r.id = "images-alt"
        /\ tags = << >> =>
              r.status = "pass" /\ r.details = NoDetails /\ r.count = NoCount
        /\ (tags # << >> /\ missing = 0) => r.status = "pass"
        /\ missing > 0 => r.status = "fail" /\ r.count = Some(missing)

NonEmptyAttr(a) == IsSome(a) /\ Get(a) # << >>

HasNonWhitespace(a) == IsSome(a) /\ \E i \in DOMAIN Get(a) : Get(a)[i] # " "

\* neither a non-empty description nor a non-empty title
LacksNonEmptyText(tag) == ~NonEmptyAttr(tag.descr) /\ ~NonEmptyAttr(tag.title)

\* neither a description with a non-whitespace character nor a non-empty title
LacksUsableText(tag) == ~HasNonWhitespace(tag.descr) /\ ~NonEmptyAttr(tag.title)

\* C6 as claimed: the images-alt record is pass without details or count when
\* the body holds no image descriptor, pass when every descriptor has a
\* non-empty description or title, and otherwise fail with the number of
\* descriptors that have neither.
ImagesAltAsClaimed ==
    BodyChecked => ImagesAltAsDescribed(fetched.imgTags, LacksNonEmptyText)

\* C6, amended: the same, an image counting as missing exactly when it has
\* neither a description containing a non-whitespace character nor a
\* non-empty title.
ImagesAltRecordCorrect ==
    BodyChecked => ImagesAltAsDescribed(fetched.imgTags, LacksUsableText)

\* a body with a whitespace-only description (counted missing) and a
\* whitespace-only title (counted present)
WitnessBlankAttributes ==
    /\ BodyChecked
    /\ fetched.imgTags = << [descr |-> Some(<<" ">>), title |-> None],
                            [descr |-> None, title |-> Some(<<" ">>)] >>
    /\ LastRecord.status = "fail"
    /\ LastRecord.count = Some(1)

StructChecked == pc \in {"done", "threw"} /\ fetched.what = "structTree"

RecordsWithId(id) == { i \in DOMAIN violations : violations[i].id = id }

\* C7: when the structure tree is absent or its retrieval throws, checkPdf
\* still returns a Report; it holds a fail record structure-tags and a fail
\* record pdf-images-alt, and no figure is visited or counted: the
\* pdf-images-alt record carries no count, whatever tree the document holds.
UntaggedPdfFailsBothChecks ==
    (StructChecked /\ fetched.state # "tree") =>
        /\ pc = "done"
        /\ Returned
        /\ TheReport.violations = violations
        /\ \E i \in RecordsWithId("structure-tags") : violations[i].status = "fail"
        /\ \A i \in RecordsWithId("pdf-images-alt") :
              /\ violations[i].status = "fail"
              /\ violations[i].count = NoCount
              /\ violations[i] = PdfNoTagsAltRecord
        /\ Cardinality(RecordsWithId("pdf-images-alt")) = 1

\* the retrieval threw for a document whose tree holds a figure without
\* alternative text
WitnessStructTreeThrows ==
    /\ pc = "done"
    /\ fetched.what = "structTree"
    /\ fetched.state = "throws"
    /\ fetched.root.role = "Figure"
    /\ fetched.root.alt = None
    /\ Returned

TitleChecked == fetched.what = "core"

\* C8: the meta-title record of checkDocx is fail when the core-properties
\* part is missing or unreadable, fail when the title is empty or
\* whitespace-only, and otherwise pass with details containing the title.
DocxTitleRecordAsClaimed ==
    TitleChecked =>
        /\ Len(violations) = 1
        /\ violations[1].id = "meta-title"
        /\ fetched.state # "ok" => violations[1].status = "fail"
        /\ (fetched.state = "ok" /\ Trim(fetched.dcTitle) = << >>) =>
              violations[1].status = "fail"
        /\ (fetched.state = "ok" /\ Trim(fetched.dcTitle) # << >>) =>
              /\ violations[1].status = "pass"
              /\ Contains(violations[1].details, fetched.dcTitle)

RECURSIVE SumLengths(_, _)
\* the text length of the first k pages
SumLengths(pages, k) ==
    IF k = 0 THEN 0
    ELSE SumLengths(pages, k - 1) + JoinedLength(pages[k])

TextChecked == pc = "await_pdf_struct" /\ fetched.what = "pages"

FirstFive(pages) == IF Len(pages) < 5 THEN Len(pages) ELSE 5

RECURSIVE NodesOf(_)
RECURSIVE NodesOfAll(_)
\* every node of a structure tree, at any depth
NodesOf(node) == <<node>> \o NodesOfAll(node.children)

NodesOfAll(children) ==
    IF children = << >> THEN << >>
    ELSE NodesOf(Head(children)) \o NodesOfAll(Tail(children))

NonEmptyString(x) == IsSome(x) /\ Get(x) # << >>

\* a non-empty alt string, or a non-empty Alt entry of the attribute dictionary
HasNonEmptyAlt(node) ==
    \/ NonEmptyString(node.alt)
    \/ IsSome(node.dictAlt) /\ NonEmptyString(Get(node.dictAlt))

\* an alt string, or an Alt entry of the dictionary, with a non-whitespace
\* character
HasNonWhitespaceAlt(node) ==
    \/ HasNonWhitespace(node.alt)
    \/ IsSome(node.dictAlt) /\ HasNonWhitespace(Get(node.dictAlt))

FigureNode(node) == node.role = "Figure"

\* the pdf-images-alt record the claim describes, for a reading HasAlt of
\* "the figure has alternative text"
FiguresAltAsDescribed(root, HasAlt(_)) ==
    LET nodes == NodesOf(root)
        NoAltFigure(n) == FigureNode(n) /\ ~HasAlt(n)
        figures == CountWhere(nodes, FigureNode)
        missing == CountWhere(nodes, NoAltFigure)
        r == LastRecord
    IN  /\ r.id = "pdf-images-alt"
        /\ figures = 0 => r.status = "warning"
        /\ (figures > 0 /\ missing = 0) => r.status = "pass"
        /\ missing > 0 => r.status = "fail" /\ r.count = Some(missing)

TreeChecked == pc = "done" /\ fetched.what = "structTree" /\ fetched.state = "tree"

\* C10 as claimed: with a structure tree, every node of role "Figure" at any
\* depth is counted, and the pdf-images-alt record is warning when there is no
\* figure, pass when every figure has a non-empty alt string or a non-empty
\* Alt entry in its dictionary, and otherwise fail with the number of figures
\* that have neither.
FiguresAltAsClaimed ==
    TreeChecked => FiguresAltAsDescribed(fetched.root, HasNonEmptyAlt)

\* C10, amended: the same, a figure having alternative text exactly when its
\* alt string, or the Alt entry of its dictionary, holds a non-whitespace
\* character.
FiguresAltRecordCorrect ==
    TreeChecked => FiguresAltAsDescribed(fetched.root, HasNonWhitespaceAlt)

\* three figures, one nested under another, one of them with alternative
\* text: fail with count 2
WitnessThreeFigures ==
    /\ TreeChecked
    /\ CountWhere(NodesOf(fetched.root), FigureNode) = 3
    /\ CountWhere(NodesOf(fetched.root), HasNonWhitespaceAlt) = 1
    /\ Len(fetched.root.children) = 1
    /\ LastRecord.status = "fail"
    /\ LastRecord.count = Some(2)

PartChecked == fetched.what \in {"core", "styles", "body"}

\* C11: no failure to extract a part (a part that is present but is not
\* parsable XML, or that parses to an unexpected root element) makes checkDocx
\* throw: the check of that part pushes its record and the run goes on; a run
\* of checkDocx ends by throwing only when the container cannot be opened.
DocxPartFailureNeverThrows ==
    /\ (pc = "threw" /\ fetched.what # "pdf") => fetched.what = "zip"
    /\ (PartChecked /\ fetched.state \in {"unparsable", "badroot"}) =>
          /\ pc # "threw"
          /\ fetched.what = "core" =>
                /\ LastRecord.id = "meta-title"
                /\ LastRecord.status \in {"fail", "warning"}
          /\ fetched.what = "styles" => LastRecord.id = "meta-lang"

\* C12: when docProps/core.xml, word/styles.xml or word/document.xml is
\* missing, every check that reads the part pushes a record whose status is
\* fail or warning, never pass, and the other checks still push theirs: the
\* meta-title record for core.xml, the meta-lang record for styles.xml, the
\* structure-headings and images-alt records for document.xml.
MissingPartNeverPasses ==
    (PartChecked /\ fetched.state = "missing") =>
        /\ pc # "threw"
        /\ fetched.what = "core" =>
              /\ Len(violations) = 1
              /\ violations[1].status \in {"fail", "warning"}
        /\ fetched.what = "styles" =>
              /\ Len(violations) = 2
              /\ violations[2].status \in {"fail", "warning"}
        /\ fetched.what = "body" =>
              /\ Len(violations) = 4
              /\ violations[3].status \in {"fail", "warning"}
              /\ violations[4].status \in {"fail", "warning"}

AcceptedTypes == {"application/pdf",
                  "application/vnd.openxmlformats-officedocument.wordprocessingml.document"}

HoldsReportOf(id) == IsSome(homeReport) /\ Get(homeReport).fileName = id

\* C13: a file whose declared MIME type is neither application/pdf nor the
\* DOCX MIME type is rejected before any analyser is invoked: the upload
\* widget turns it away with an alert and starts no handleFileSelect call,
\* handleFileSelect itself dispatches such a type to the 'Unsupported file
\* type' error, no analyser is ever invoked for the file, and the page never
\* holds a Report of it.
UnsupportedTypeRejected ==
    /\ \A t \in FileTypes \ AcceptedTypes : Dispatch(t) = "unsupported"
    /\ \A f \in alerted :
          /\ f.type \notin AcceptedTypes
          /\ \A k \in DOMAIN calls : calls[k].file.id # f.id
          /\ ~HoldsReportOf(f.id)
    /\ \A k \in DOMAIN calls :
          /\ calls[k].invoked => calls[k].file.type \in AcceptedTypes
          /\ calls[k].file.type \notin AcceptedTypes =>
                /\ calls[k].at = "finished"
                /\ ~HoldsReportOf(calls[k].file.id)
    /\ \A id \in 1..(NextFileId - 1) :
          \/ \E f \in alerted : f.id = id
          \/ \E k \in DOMAIN calls : calls[k].file.id = id

\* a plain-text file was selected first and turned away; the DOCX selected
\* after it was analysed and its Report is held
WitnessTextFileTurnedAway ==
    /\ \E f \in alerted : f.id = 1 /\ f.type = "text/plain"
    /\ Len(calls) = 1
    /\ calls[1].file.id = 2
    /\ calls[1].analyser = "checkDocx"
    /\ HoldsReportOf(2)

\* the records checkDocx can push
DocxRecords ==
    {DocxNoCoreRecord}
    \cup { DocxTitleRecord(t) : t \in StringsUpTo(MaxTitleLen) }
    \cup { DocxLangRecord(found) : found \in BOOLEAN }
    \cup { DocxHeadingsRecord(hasHeadings) : hasHeadings \in BOOLEAN }
    \cup { DocxImagesRecord(hasImages, n) : hasImages \in BOOLEAN, n \in 0..MaxImages }

\* the records checkPdf can push
PdfRecords ==
    { PdfTitleRecord(m.infoTitle) : m \in PdfMetadata }
    \cup { PdfLangRecord(PdfLang(m)) : m \in PdfMetadata }
    \cup { PdfBookmarksRecord, PdfTaggedRecord, PdfUntaggedRecord, PdfNoTagsAltRecord }
    \cup { PdfOcrRecord(n) : n \in {0, OcrMinTextLength} }
    \cup { PdfFiguresRecord(found, missing) : found \in 0..MaxNodes, missing \in 0..MaxNodes }

\* C14: the impact of a record is fixed per check: every record in the
\* violations list of a run carries the impact that every other record that
\* either analyser can push with the same id carries, whatever the statuses.
ImpactFixedPerCheck ==
    \A i \in DOMAIN violations :
        \A r \in DocxRecords \cup PdfRecords :
            r.id = violations[i].id => r.impact = violations[i].impact

Ids(vs) == [i \in DOMAIN vs |-> vs[i].id]

IsPrefix(s, t) == Len(s) <= Len(t) /\ SubSeq(t, 1, Len(s)) = s

DocxOrder == <<"meta-title", "meta-lang", "structure-headings", "images-alt">>

DocxOrderWithHeadingOrder ==
    <<"meta-title", "meta-lang", "structure-headings", "heading-order", "images-alt">>

PdfOrder == <<"meta-title", "meta-lang", "nav-bookmarks", "ocr-text",
              "structure-tags", "pdf-images-alt">>

PdfOrderWithoutNav == <<"meta-title", "meta-lang", "ocr-text",
                        "structure-tags", "pdf-images-alt">>

OutlineChecked == pc = "await_pdf_text" /\ fetched.what = "outline"

\* C19: checkPdf pushes a nav-bookmarks record if and only if the outline is
\* non-empty, and that record always has status pass; for an absent or empty
\* outline the check pushes nothing, so a PDF report holds exactly 6 records
\* with an outline and exactly 5 without.
BookmarksRecordIffOutline ==
    /\ OutlineChecked =>
          /\ (~fetched.isNull /\ fetched.length > 0) =>
                Ids(violations) = <<"meta-title", "meta-lang", "nav-bookmarks">>
          /\ (fetched.isNull \/ fetched.length = 0) =>
                Ids(violations) = <<"meta-title", "meta-lang">>
    /\ \A i \in RecordsWithId("nav-bookmarks") :
          i = 3 /\ violations[i].status = "pass"
    /\ (Returned /\ TheReport.fileType = "pdf") =>
          /\ RecordsWithId("nav-bookmarks") # {} => TheReport.totalChecks = 6
          /\ RecordsWithId("nav-bookmarks") = {} => TheReport.totalChecks = 5

\* the outline check has met an outline that is present but has no items
WitnessEmptyOutline ==
    /\ OutlineChecked
    /\ ~fetched.isNull
    /\ fetched.length = 0
    /\ Len(violations) = 2

\* the step in which checkDocx reads word/document.xml and returns
BodyCheckStep == pc = "docx_body" /\ pc' = "done"

\* the structure-headings record the claim describes, for a reading
\* References of "the body references the style identifier"
HeadingsRecordAsDescribed(body, ids, rec, References(_, _)) ==
    LET found == /\ body.state = "ok"
                 /\ \/ \E id \in ids : References(body.vals, id)
                    \/ MatchesFallback(body.vals)
    IN  /\ rec.id = "structure-headings"
        /\ found => rec.status = "pass"
        /\ ~found => rec.status = "fail"

\* a w:val of the body is the identifier
RefersTo(vals, id) == \E v \in vals : v = id

\* a w:val of the body is the identifier up to the case of its letters
RefersToIgnoringCase(vals, id) == \E v \in vals : Lower(v) = Lower(id)

\* the identifiers collected are identifiers of styles.xml, none when the part
\* is missing or unparsable
CollectedFromStyles ==
    fetched.what = "styles" =>
        /\ headingStyleIds \subseteq { st.styleId : st \in fetched.styles }
        /\ fetched.state # "ok" => headingStyleIds = {}

HeadingCheckReported == headingRecords # << >>

OrderRecords == { i \in DOMAIN headingRecords : headingRecords[i].id = "heading-order" }

\* the transitions of the scanned body that skip a level
SkippingTransitions ==
    { i \in 2..Len(headingSeq) : headingSeq[i] > headingSeq[i - 1] + 1 }

InFlight == { k \in DOMAIN calls : calls[k].at # "finished" }

\* C20: isProcessing is true at every moment at which at least one
\* handleFileSelect call has started and not yet finished, and false once no
\* analysis is in flight, for every interleaving of selections by input
\* change and by drag-and-drop and of analysis completions.
IsProcessingTracksCalls == isProcessing <=> (InFlight # {})

Finished(p) == p \in {"done", "threw"}

BothFinished == Finished(pc) /\ Finished(suspended.pc)

\* the two invocations have ended alike: both threw, or both returned, and
\* then the same Report
SameOutcome == pc = suspended.pc /\ report = suspended.report

LatestFile == calls[Len(calls)].file

\* the report the page holds belongs to the file selected last
ReportOfLatestFile ==
    IsSome(homeReport) =>
        /\ calls # << >>
        /\ Get(homeReport).fileName = LatestFile.id

\* the error the page shows belongs to the file selected last
ErrorOfLatestFile ==
    IsSome(error) =>
        /\ calls # << >>
        /\ Get(error).file = LatestFile.id

\* error and report are not both set
ErrorOrReportNotBoth == ~(IsSome(error) /\ IsSome(homeReport))

\* C21: after any sequence of file selections and analysis completions the
\* report the page holds, and any error it shows, is the outcome of the most
\* recently selected file (the outcome of an earlier file neither replaces
\* nor stands beside that of a later one), and error and report are never
\* both set.
LatestFileOutcomeShown ==
    /\ ReportOfLatestFile
    /\ ErrorOfLatestFile
    /\ ErrorOrReportNotBoth

====
